---- MODULE Spec2Model ----
(***************************************************************************)
(* Cache<T: Copy> of src/src/cache.rs: handles (cached_value,              *)
(* override_value, raw_value) onto Arc<Mutex<T>> cells.  Every handle is   *)
(* used through &mut self, so one call at a time runs on a handle; calls   *)
(* on different handles interleave at the mutex operations.                *)
(***************************************************************************)
EXTENDS Integers, Sequences, FiniteSets, TLC

\* ---- bounds ----
MaxHandles == 2
MaxVal == 2
MaxCalls == 5

Values == 1..MaxVal

\* ---- Option<T> ----
None == <<>>
Some(v) == <<v>>
OptionValues == {None} \cup {Some(v) : v \in Values}
unwrap_or(o, default) == IF o = None THEN default ELSE o[1]

VARIABLES
    cached_value,    \* handle -> T
    override_value,  \* handle -> Option<T>
    raw_value,       \* handle -> cell id (the Arc pointer)
    data,            \* cell id -> T, the value inside the Mutex
    locked,          \* cell id -> BOOLEAN, the Mutex's lock bit
    pc,              \* handle -> position of the call running on it
    op,              \* handle -> the call most recently made on it
    value,           \* handle -> Option<T>, the parameter of a running set
    try_result,      \* handle -> Option<T>, what a try_update_cache call returned
    ret,             \* handle -> Option<T>, Some(the T the last read call returned)
    \* history variables, read by no action's guard or effect on the program state
    written,         \* cell id -> the values given to new or passed to set
    latest,          \* cell id -> value of the write that last took the lock
    last_set,        \* cell id -> Option<T>, value of the set that last returned
    expect,          \* handle -> Option<T>, see get_updated_call
    created,         \* handle -> T, local cache at creation
    synced,          \* handle -> Option<T>, cell value at last read/write of the cell
    pristine,        \* handle -> BOOLEAN, nothing but a first get since new
    parent,          \* handle -> handle it was cloned from, 0 for new
    stable,          \* handle -> BOOLEAN, see update_read
    calls            \* number of calls made so far, on any handle

vars == <<cached_value, override_value, raw_value, data, locked, pc, op, value,
          try_result, ret, written, latest, last_set, expect, created, synced,
          pristine, parent, stable, calls>>

hist == <<written, latest, last_set, expect, created, synced, pristine, parent,
          stable>>

Handles == DOMAIN pc
Cells == DOMAIN data

Init ==
    /\ cached_value = <<>> /\ override_value = <<>> /\ raw_value = <<>>
    /\ data = <<>> /\ locked = <<>>
    /\ pc = <<>> /\ op = <<>> /\ value = <<>> /\ try_result = <<>> /\ ret = <<>>
    /\ written = <<>> /\ latest = <<>> /\ last_set = <<>>
    /\ expect = <<>> /\ created = <<>> /\ synced = <<>>
    /\ pristine = <<>> /\ parent = <<>> /\ stable = <<>> /\ calls = 0

\* new, were it to start the handle with the override set to the value
new_with_override(v) ==
    /\ Len(pc) < MaxHandles
    /\ calls < MaxCalls /\ calls' = calls + 1
    /\ cached_value' = Append(cached_value, v)
    /\ override_value' = Append(override_value, Some(v))
    /\ raw_value' = Append(raw_value, Len(data) + 1)
    /\ data' = Append(data, v)
    /\ locked' = Append(locked, FALSE)
    /\ pc' = Append(pc, "idle")
    /\ op' = Append(op, "new")
    /\ value' = Append(value, None)
    /\ try_result' = Append(try_result, None)
    /\ ret' = Append(ret, None)
    /\ written' = Append(written, {v})
    /\ latest' = Append(latest, v)
    /\ last_set' = Append(last_set, None)
    /\ expect' = Append(expect, None)
    /\ created' = Append(created, v)
    /\ synced' = Append(synced, None)
    /\ pristine' = Append(pristine, TRUE)
    /\ parent' = Append(parent, 0)
    /\ stable' = Append(stable, FALSE)

\* ---- Cache::new, lines 47-53 ----
new(v) ==
    /\ Len(pc) < MaxHandles
    /\ calls < MaxCalls /\ calls' = calls + 1
    /\ cached_value' = Append(cached_value, v)
    /\ override_value' = Append(override_value, None)
    /\ raw_value' = Append(raw_value, Len(data) + 1)
    /\ data' = Append(data, v)
    /\ locked' = Append(locked, FALSE)
    /\ pc' = Append(pc, "idle")
    /\ op' = Append(op, "new")
    /\ value' = Append(value, None)
    /\ try_result' = Append(try_result, None)
    /\ ret' = Append(ret, None)
    /\ written' = Append(written, {v})
    /\ latest' = Append(latest, v)
    /\ last_set' = Append(last_set, None)
    /\ expect' = Append(expect, None)
    /\ created' = Append(created, v)
    /\ synced' = Append(synced, None)
    /\ pristine' = Append(pristine, TRUE)
    /\ parent' = Append(parent, 0)
    /\ stable' = Append(stable, FALSE)

\* clone, were it to copy the cell instead of sharing it
clone_deep(s) ==
    /\ Len(pc) < MaxHandles
    /\ calls < MaxCalls /\ calls' = calls + 1
    /\ pc[s] = "idle"
    /\ cached_value' = Append(cached_value, cached_value[s])
    /\ override_value' = Append(override_value, override_value[s])
    /\ raw_value' = Append(raw_value, Len(data) + 1)
    /\ data' = Append(data, data[raw_value[s]])
    /\ locked' = Append(locked, FALSE)
    /\ pc' = Append(pc, "idle")
    /\ op' = Append(op, "clone")
    /\ value' = Append(value, None)
    /\ try_result' = Append(try_result, None)
    /\ ret' = Append(ret, None)
    /\ written' = Append(written, written[raw_value[s]])
    /\ latest' = Append(latest, latest[raw_value[s]])
    /\ last_set' = Append(last_set, last_set[raw_value[s]])
    /\ expect' = Append(expect, None)
    /\ created' = Append(created, cached_value[s])
    /\ synced' = Append(synced, None)
    /\ pristine' = Append([pristine EXCEPT ![s] = FALSE], FALSE)
    /\ parent' = Append(parent, s)
    /\ stable' = Append(stable, FALSE)

\* ---- #[derive(Clone)], lines 4-10: copies cached_value and override_value,
\* ---- clones the Arc (same cell) ----
clone(s) ==
    /\ Len(pc) < MaxHandles
    /\ calls < MaxCalls /\ calls' = calls + 1
    /\ pc[s] = "idle"
    /\ cached_value' = Append(cached_value, cached_value[s])
    /\ override_value' = Append(override_value, override_value[s])
    /\ raw_value' = Append(raw_value, raw_value[s])
    /\ pc' = Append(pc, "idle")
    /\ op' = Append(op, "clone")
    /\ value' = Append(value, None)
    /\ try_result' = Append(try_result, None)
    /\ ret' = Append(ret, None)
    /\ expect' = Append(expect, None)
    /\ created' = Append(created, cached_value[s])
    /\ synced' = Append(synced, None)
    /\ pristine' = Append([pristine EXCEPT ![s] = FALSE], FALSE)
    /\ parent' = Append(parent, s)
    /\ stable' = Append(stable, FALSE)
    /\ UNCHANGED <<data, locked, written, latest, last_set>>

\* the override, were it kept with the cell instead of in the handle
set_override_shared(h, o) ==
    /\ pc[h] = "idle"
    /\ override_value[h] # o
    /\ calls < MaxCalls /\ calls' = calls + 1
    /\ override_value' = [g \in Handles |->
                            IF raw_value[g] = raw_value[h] THEN o
                            ELSE override_value[g]]
    /\ pristine' = [pristine EXCEPT ![h] = FALSE]
    /\ UNCHANGED <<cached_value, raw_value, data, locked, pc, op, value,
                   try_result, ret, written, latest, last_set, expect,
                   created, synced, parent, stable>>

\* ---- direct mutation of the pub(crate) field override_value, line 8 ----
set_override(h, o) ==
    /\ pc[h] = "idle"
    /\ override_value[h] # o
    /\ calls < MaxCalls /\ calls' = calls + 1
    /\ override_value' = [override_value EXCEPT ![h] = o]
    /\ pristine' = [pristine EXCEPT ![h] = FALSE]
    /\ UNCHANGED <<cached_value, raw_value, data, locked, pc, op, value,
                   try_result, ret, written, latest, last_set, expect,
                   created, synced, parent, stable>>

\* A call op begins on handle h and stands at position p.
Begin(h, name, p) ==
    /\ pc[h] = "idle"
    /\ calls < MaxCalls /\ calls' = calls + 1
    /\ pc' = [pc EXCEPT ![h] = p]
    /\ op' = [op EXCEPT ![h] = name]
    /\ try_result' = [try_result EXCEPT ![h] = None]
    /\ ret' = [ret EXCEPT ![h] = None]
    /\ pristine' = [pristine EXCEPT ![h] = @ /\ op[h] = "new" /\ name = "get"]
    /\ stable' = [stable EXCEPT ![h] = @ /\ name \in {"update_cache", "get_updated"}]

\* set, were it to clear the handle's override
set_clears_override(h, v) ==
    /\ Begin(h, "set", "set_lock")
    /\ cached_value' = [cached_value EXCEPT ![h] = v]
    /\ override_value' = [override_value EXCEPT ![h] = None]
    /\ value' = [value EXCEPT ![h] = Some(v)]
    /\ written' = [written EXCEPT ![raw_value[h]] = @ \cup {v}]
    /\ expect' = [expect EXCEPT ![h] = None]
    /\ UNCHANGED <<raw_value, data, locked, latest, last_set,
                   created, synced, parent>>

\* set, were it to leave the local cache alone until the store is done
set_cache_later(h, v) ==
    /\ Begin(h, "set", "set_lock")
    /\ value' = [value EXCEPT ![h] = Some(v)]
    /\ written' = [written EXCEPT ![raw_value[h]] = @ \cup {v}]
    /\ expect' = [expect EXCEPT ![h] = None]
    /\ UNCHANGED <<cached_value, override_value, raw_value, data, locked, latest,
                   last_set, created, synced, parent>>

\* ---- Cache::set, lines 14-17 ----
\* line 15: the local cache is assigned before the mutex is locked
set(h, v) ==
    /\ Begin(h, "set", "set_lock")
    /\ cached_value' = [cached_value EXCEPT ![h] = v]
    /\ value' = [value EXCEPT ![h] = Some(v)]
    /\ written' = [written EXCEPT ![raw_value[h]] = @ \cup {v}]
    /\ expect' = [expect EXCEPT ![h] = None]
    /\ UNCHANGED <<override_value, raw_value, data, locked, latest, last_set,
                   created, synced, parent>>

\* set's lock(), were it to go on without waiting for the mutex
set_lock_no_wait(h) ==
    /\ pc[h] = "set_lock"
    /\ UNCHANGED calls
    /\ locked' = [locked EXCEPT ![raw_value[h]] = TRUE]
    /\ pc' = [pc EXCEPT ![h] = "set_write"]
    /\ latest' = [latest EXCEPT ![raw_value[h]] = value[h][1]]
    /\ stable' = [g \in Handles |-> stable[g] /\ raw_value[g] # raw_value[h]]
    /\ UNCHANGED <<cached_value, override_value, raw_value, data, op, value,
                   try_result, ret, written, last_set, expect, created,
                   synced, pristine, parent>>

\* line 16: raw_value.lock() returns once the mutex is free
set_lock(h) ==
    /\ pc[h] = "set_lock"
    /\ UNCHANGED calls
    /\ ~locked[raw_value[h]]
    /\ locked' = [locked EXCEPT ![raw_value[h]] = TRUE]
    /\ pc' = [pc EXCEPT ![h] = "set_write"]
    /\ latest' = [latest EXCEPT ![raw_value[h]] = value[h][1]]
    /\ stable' = [g \in Handles |-> stable[g] /\ raw_value[g] # raw_value[h]]
    /\ UNCHANGED <<cached_value, override_value, raw_value, data, op, value,
                   try_result, ret, written, last_set, expect, created,
                   synced, pristine, parent>>

\* set, were it to push the value into the local cache of every handle of the cell
set_write_broadcast(h) ==
    /\ pc[h] = "set_write"
    /\ UNCHANGED calls
    /\ data' = [data EXCEPT ![raw_value[h]] = value[h][1]]
    /\ cached_value' = [g \in Handles |->
                          IF raw_value[g] = raw_value[h] THEN value[h][1]
                          ELSE cached_value[g]]
    /\ locked' = [locked EXCEPT ![raw_value[h]] = FALSE]
    /\ pc' = [pc EXCEPT ![h] = "idle"]
    /\ value' = [value EXCEPT ![h] = None]
    /\ synced' = [synced EXCEPT ![h] = value[h]]
    /\ last_set' = [last_set EXCEPT ![raw_value[h]] = value[h]]
    /\ expect' = [g \in Handles |->
                    IF raw_value[g] = raw_value[h] /\ pc[g] # "idle"
                    THEN None ELSE expect[g]]
    /\ UNCHANGED <<override_value, raw_value, op, try_result,
                   ret, written, latest, created, pristine, parent, stable>>

\* line 16: the store through the guard, the guard's drop, and the return
set_write(h) ==
    /\ pc[h] = "set_write"
    /\ UNCHANGED calls
    /\ data' = [data EXCEPT ![raw_value[h]] = value[h][1]]
    /\ locked' = [locked EXCEPT ![raw_value[h]] = FALSE]
    /\ pc' = [pc EXCEPT ![h] = "idle"]
    /\ value' = [value EXCEPT ![h] = None]
    /\ synced' = [synced EXCEPT ![h] = value[h]]
    /\ last_set' = [last_set EXCEPT ![raw_value[h]] = value[h]]
    /\ expect' = [g \in Handles |->
                    IF raw_value[g] = raw_value[h] /\ pc[g] # "idle"
                    THEN None ELSE expect[g]]
    /\ UNCHANGED <<cached_value, override_value, raw_value, op, try_result,
                   ret, written, latest, created, pristine, parent, stable>>

\* ---- Cache::update_cache, lines 29-31, and Cache::get_updated, lines 33-36 ----
update_cache(h) ==
    /\ Begin(h, "update_cache", "update_lock")
    /\ expect' = [expect EXCEPT ![h] = None]
    /\ UNCHANGED <<cached_value, override_value, raw_value, data, locked, value,
                   written, latest, last_set, created, synced, parent>>

\* expect[h]: the value of the set that last returned on h's cell before this
\* call began; set_write clears it when another set returns during the call
get_updated(h) ==
    /\ Begin(h, "get_updated", "update_lock")
    /\ expect' = [expect EXCEPT ![h] = last_set[raw_value[h]]]
    /\ UNCHANGED <<cached_value, override_value, raw_value, data, locked, value,
                   written, latest, last_set, created, synced, parent>>

\* update_cache's lock(), were it to go on without waiting for the mutex
update_lock_no_wait(h) ==
    /\ pc[h] = "update_lock"
    /\ UNCHANGED calls
    /\ locked' = [locked EXCEPT ![raw_value[h]] = TRUE]
    /\ pc' = [pc EXCEPT ![h] = "update_read"]
    /\ UNCHANGED <<cached_value, override_value, raw_value, data, op, value,
                   try_result, ret, hist>>

\* line 30: raw_value.lock()
update_lock(h) ==
    /\ pc[h] = "update_lock"
    /\ UNCHANGED calls
    /\ ~locked[raw_value[h]]
    /\ locked' = [locked EXCEPT ![raw_value[h]] = TRUE]
    /\ pc' = [pc EXCEPT ![h] = "update_read"]
    /\ UNCHANGED <<cached_value, override_value, raw_value, data, op, value,
                   try_result, ret, hist>>

\* update_cache, were it to take the lock and leave the local cache as it was
update_read_stale(h) ==
    /\ pc[h] = "update_read"
    /\ UNCHANGED calls
    /\ locked' = [locked EXCEPT ![raw_value[h]] = FALSE]
    /\ pc' = [pc EXCEPT ![h] = "idle"]
    /\ ret' = [ret EXCEPT ![h] = IF op[h] = "get_updated"
                                 THEN Some(cached_value[h]) ELSE None]
    /\ synced' = [synced EXCEPT ![h] = Some(data[raw_value[h]])]
    /\ stable' = [stable EXCEPT ![h] = TRUE]
    /\ UNCHANGED <<cached_value, override_value, raw_value, data, op, value,
                   try_result, written, latest, last_set, expect, created,
                   pristine, parent>>

\* update_cache, were the guard leaked instead of dropped
update_read_keeps_lock(h) ==
    /\ pc[h] = "update_read"
    /\ UNCHANGED calls
    /\ cached_value' = [cached_value EXCEPT ![h] = data[raw_value[h]]]
    /\ pc' = [pc EXCEPT ![h] = "idle"]
    /\ ret' = [ret EXCEPT ![h] = IF op[h] = "get_updated"
                                 THEN Some(cached_value'[h]) ELSE None]
    /\ synced' = [synced EXCEPT ![h] = Some(data[raw_value[h]])]
    /\ stable' = [stable EXCEPT ![h] = TRUE]
    /\ UNCHANGED <<override_value, raw_value, data, locked, op, value, try_result,
                   written, latest, last_set, expect, created, pristine, parent>>

\* update_cache, were it to swap the local cache with the cell's value
update_read_swap(h) ==
    /\ pc[h] = "update_read"
    /\ UNCHANGED calls
    /\ cached_value' = [cached_value EXCEPT ![h] = data[raw_value[h]]]
    /\ data' = [data EXCEPT ![raw_value[h]] = cached_value[h]]
    /\ locked' = [locked EXCEPT ![raw_value[h]] = FALSE]
    /\ pc' = [pc EXCEPT ![h] = "idle"]
    /\ ret' = [ret EXCEPT ![h] = IF op[h] = "get_updated"
                                 THEN Some(cached_value'[h]) ELSE None]
    /\ synced' = [synced EXCEPT ![h] = Some(data[raw_value[h]])]
    /\ stable' = [stable EXCEPT ![h] = TRUE]
    /\ UNCHANGED <<override_value, raw_value, op, value, try_result,
                   written, latest, last_set, expect, created, pristine, parent>>

\* line 30: the copy out of the guard and the guard's drop; line 35 for get_updated.
\* stable[h] holds from here until a set takes the lock of h's cell or a call
\* other than update_cache or get_updated begins on h.
update_read(h) ==
    /\ pc[h] = "update_read"
    /\ UNCHANGED calls
    /\ cached_value' = [cached_value EXCEPT ![h] = data[raw_value[h]]]
    /\ locked' = [locked EXCEPT ![raw_value[h]] = FALSE]
    /\ pc' = [pc EXCEPT ![h] = "idle"]
    /\ ret' = [ret EXCEPT ![h] = IF op[h] = "get_updated"
                                 THEN Some(cached_value'[h]) ELSE None]
    /\ synced' = [synced EXCEPT ![h] = Some(data[raw_value[h]])]
    /\ stable' = [stable EXCEPT ![h] = TRUE]
    /\ UNCHANGED <<override_value, raw_value, data, op, value, try_result,
                   written, latest, last_set, expect, created, pristine, parent>>

\* ---- Cache::try_update_cache 38-45, Cache::get_true 25-27, Cache::get 20-22 ----
try_update_cache(h) ==
    /\ Begin(h, "try_update_cache", "try_lock")
    /\ expect' = [expect EXCEPT ![h] = None]
    /\ UNCHANGED <<cached_value, override_value, raw_value, data, locked, value,
                   written, latest, last_set, created, synced, parent>>

get_true(h) ==
    /\ Begin(h, "get_true", "try_lock")
    /\ expect' = [expect EXCEPT ![h] = None]
    /\ UNCHANGED <<cached_value, override_value, raw_value, data, locked, value,
                   written, latest, last_set, created, synced, parent>>

get(h) ==
    /\ Begin(h, "get", "try_lock")
    /\ expect' = [expect EXCEPT ![h] = None]
    /\ UNCHANGED <<cached_value, override_value, raw_value, data, locked, value,
                   written, latest, last_set, created, synced, parent>>

\* line 26: try_update_cache().unwrap_or(self.cached_value), the receiver first
get_true_value(tr, cv) == unwrap_or(tr, cv)

\* get, were it to leave the override out
get_value_no_override(ov, tr, cv) == get_true_value(tr, cv)

\* line 21: override_value.unwrap_or(self.get_true()); the argument is evaluated
\* whether or not the override is set
get_value(ov, tr, cv) == unwrap_or(ov, get_true_value(tr, cv))

\* get_true, were it to consult the override as get does
Returned_override_leak(name, ov, tr, cv) ==
    CASE name = "get" -> Some(get_value(ov, tr, cv))
      [] name = "get_true" -> Some(get_value(ov, tr, cv))
      [] OTHER -> None

\* What the call name returns as a T, given the handle's fields after
\* try_update_cache returned tr.
Returned(name, ov, tr, cv) ==
    CASE name = "get" -> Some(get_value(ov, tr, cv))
      [] name = "get_true" -> Some(get_true_value(tr, cv))
      [] OTHER -> None

\* try_update_cache, were it to use lock() in place of try_lock()
try_lock_blocking(h) ==
    /\ pc[h] = "try_lock"
    /\ UNCHANGED calls
    /\ ~locked[raw_value[h]]
    /\ locked' = [locked EXCEPT ![raw_value[h]] = TRUE]
    /\ pc' = [pc EXCEPT ![h] = "try_read"]
    /\ UNCHANGED <<try_result, ret>>
    /\ UNCHANGED <<cached_value, override_value, raw_value, data, op, value, hist>>

\* try_update_cache, were it to answer Some(cached_value) under contention
try_lock_some_on_contention(h) ==
    /\ pc[h] = "try_lock"
    /\ UNCHANGED calls
    /\ \/ /\ ~locked[raw_value[h]]
          /\ locked' = [locked EXCEPT ![raw_value[h]] = TRUE]
          /\ pc' = [pc EXCEPT ![h] = "try_read"]
          /\ UNCHANGED <<try_result, ret>>
       \/ /\ locked[raw_value[h]]
          /\ pc' = [pc EXCEPT ![h] = "idle"]
          /\ try_result' = [try_result EXCEPT ![h] = Some(cached_value[h])]
          /\ ret' = [ret EXCEPT ![h] =
                       Returned(op[h], override_value[h], None, cached_value[h])]
          /\ UNCHANGED locked
    /\ UNCHANGED <<cached_value, override_value, raw_value, data, op, value, hist>>

\* line 39: raw_value.try_lock(); Some(guard) when the mutex is free, else None
\* and the call returns (lines 42-44, then 26 and 21)
try_lock(h) ==
    /\ pc[h] = "try_lock"
    /\ UNCHANGED calls
    /\ \/ /\ ~locked[raw_value[h]]
          /\ locked' = [locked EXCEPT ![raw_value[h]] = TRUE]
          /\ pc' = [pc EXCEPT ![h] = "try_read"]
          /\ UNCHANGED <<try_result, ret>>
       \/ /\ locked[raw_value[h]]
          /\ pc' = [pc EXCEPT ![h] = "idle"]
          /\ try_result' = [try_result EXCEPT ![h] = None]
          /\ ret' = [ret EXCEPT ![h] =
                       Returned(op[h], override_value[h], None, cached_value[h])]
          /\ UNCHANGED locked
    /\ UNCHANGED <<cached_value, override_value, raw_value, data, op, value, hist>>

\* try_update_cache, were it to return the cell's value without storing it
try_read_no_store(h) ==
    /\ pc[h] = "try_read"
    /\ UNCHANGED calls
    /\ try_result' = [try_result EXCEPT ![h] =
                        IF op[h] = "try_update_cache"
                        THEN Some(data[raw_value[h]]) ELSE None]
    /\ locked' = [locked EXCEPT ![raw_value[h]] = FALSE]
    /\ pc' = [pc EXCEPT ![h] = "idle"]
    /\ ret' = [ret EXCEPT ![h] =
                 Returned(op[h], override_value[h], Some(data[raw_value[h]]),
                          cached_value[h])]
    /\ synced' = [synced EXCEPT ![h] = Some(data[raw_value[h]])]
    /\ UNCHANGED <<cached_value, override_value, raw_value, data, op, value,
                   written, latest, last_set, expect, created, pristine, parent,
                   stable>>

\* get, were it to leave the refresh out when the override is set
try_read_lazy_get(h) ==
    /\ pc[h] = "try_read"
    /\ UNCHANGED calls
    /\ cached_value' = [cached_value EXCEPT ![h] =
                          IF op[h] = "get" /\ override_value[h] # None
                          THEN @ ELSE data[raw_value[h]]]
    /\ try_result' = [try_result EXCEPT ![h] =
                        IF op[h] = "try_update_cache"
                        THEN Some(cached_value'[h]) ELSE None]
    /\ locked' = [locked EXCEPT ![raw_value[h]] = FALSE]
    /\ pc' = [pc EXCEPT ![h] = "idle"]
    /\ ret' = [ret EXCEPT ![h] =
                 Returned(op[h], override_value[h], Some(cached_value'[h]),
                          cached_value'[h])]
    /\ synced' = [synced EXCEPT ![h] = Some(data[raw_value[h]])]
    /\ UNCHANGED <<override_value, raw_value, data, op, value, written, latest,
                   last_set, expect, created, pristine, parent, stable>>

\* try_update_cache, were the guard leaked instead of dropped
try_read_keeps_lock(h) ==
    /\ pc[h] = "try_read"
    /\ UNCHANGED calls
    /\ cached_value' = [cached_value EXCEPT ![h] = data[raw_value[h]]]
    /\ try_result' = [try_result EXCEPT ![h] =
                        IF op[h] = "try_update_cache"
                        THEN Some(cached_value'[h]) ELSE None]
    /\ pc' = [pc EXCEPT ![h] = "idle"]
    /\ ret' = [ret EXCEPT ![h] =
                 Returned(op[h], override_value[h], Some(cached_value'[h]),
                          cached_value'[h])]
    /\ synced' = [synced EXCEPT ![h] = Some(data[raw_value[h]])]
    /\ UNCHANGED <<override_value, raw_value, data, locked, op, value, written,
                   latest, last_set, expect, created, pristine, parent, stable>>

\* try_update_cache, were it to store the cell's value and hand back the old cache
try_read_returns_previous(h) ==
    /\ pc[h] = "try_read"
    /\ UNCHANGED calls
    /\ cached_value' = [cached_value EXCEPT ![h] = data[raw_value[h]]]
    /\ try_result' = [try_result EXCEPT ![h] =
                        IF op[h] = "try_update_cache"
                        THEN Some(cached_value[h]) ELSE None]
    /\ locked' = [locked EXCEPT ![raw_value[h]] = FALSE]
    /\ pc' = [pc EXCEPT ![h] = "idle"]
    /\ ret' = [ret EXCEPT ![h] =
                 Returned(op[h], override_value[h], Some(cached_value[h]),
                          cached_value[h])]
    /\ synced' = [synced EXCEPT ![h] = Some(data[raw_value[h]])]
    /\ UNCHANGED <<override_value, raw_value, data, op, value, written, latest,
                   last_set, expect, created, pristine, parent, stable>>

\* lines 40-41: copy out of the guard, Some(cached_value), the guard's drop,
\* then the return through lines 26 and 21
try_read(h) ==
    /\ pc[h] = "try_read"
    /\ UNCHANGED calls
    /\ cached_value' = [cached_value EXCEPT ![h] = data[raw_value[h]]]
    /\ try_result' = [try_result EXCEPT ![h] =
                        IF op[h] = "try_update_cache"
                        THEN Some(cached_value'[h]) ELSE None]
    /\ locked' = [locked EXCEPT ![raw_value[h]] = FALSE]
    /\ pc' = [pc EXCEPT ![h] = "idle"]
    /\ ret' = [ret EXCEPT ![h] =
                 Returned(op[h], override_value[h], Some(cached_value'[h]),
                          cached_value'[h])]
    /\ synced' = [synced EXCEPT ![h] = Some(data[raw_value[h]])]
    /\ UNCHANGED <<override_value, raw_value, data, op, value, written, latest,
                   last_set, expect, created, pristine, parent, stable>>

\* One step of the call running on handle h.
Step(h) ==
    \/ set_lock(h) \/ set_write(h)
    \/ update_lock(h) \/ update_read(h)
    \/ try_lock(h) \/ try_read(h)

Next ==
    \/ \E v \in Values : new(v)
    \/ \E s \in Handles : clone(s)
    \/ \E h \in Handles, o \in OptionValues : set_override(h, o)
    \/ \E h \in Handles, v \in Values : set(h, v)
    \/ \E h \in Handles : update_cache(h)
    \/ \E h \in Handles : get_updated(h)
    \/ \E h \in Handles : try_update_cache(h)
    \/ \E h \in Handles : get_true(h)
    \/ \E h \in Handles : get(h)
    \/ \E h \in Handles : Step(h)

Spec == Init /\ [][Next]_vars

\* Scheduling: every thread keeps running, so a call's next step is taken if it
\* stays possible (WF); lock() is handed the mutex if it is free again and again
\* (SF: parking_lot's mutex is eventually fair).
Fairness ==
    \A h \in 1..MaxHandles :
        /\ WF_vars(h \in Handles
                   /\ (set_write(h) \/ update_read(h) \/ try_lock(h) \/ try_read(h)))
        /\ SF_vars(h \in Handles /\ (set_lock(h) \/ update_lock(h)))

FairSpec == Spec /\ Fairness

\* ---- shorthands of the properties ----
Cell(h) == raw_value[h]
Holds(h) == pc[h] \in {"set_write", "update_read", "try_read"}
\* the step in which the try_update_cache inside the call on h returns, and what
\* get_true makes of it: the cell's value if the guard was got, else the cache
TryReturns(h) == pc[h] \in {"try_lock", "try_read"} /\ pc'[h] = "idle"
Live(h) == IF pc[h] = "try_read" THEN data[Cell(h)] ELSE cached_value[h]

\* C1: when get_updated() returns on a handle, and some set on the same cell had
\* returned before get_updated was called, and no set on that cell returned between
\* that one and get_updated's return, then get_updated returned the value of that
\* set and the handle's local cache equals it.
C1_FreshAfterSet ==
    \A h \in Handles :
        (op[h] = "get_updated" /\ pc[h] = "idle" /\ expect[h] # None)
            => (ret[h] = expect[h] /\ cached_value[h] = expect[h][1])

C1_Witness ==
    \E h \in Handles, g \in Handles :
        /\ g # h /\ Cell(g) = Cell(h)
        /\ op[g] = "set" /\ pc[g] = "idle"
        /\ op[h] = "get_updated" /\ pc[h] = "idle"
        /\ expect[h] = Some(cached_value[g])
        /\ ret[h] = expect[h]
        /\ created[h] # cached_value[g]

\* C2: a get() that returns on a handle whose override is Some(ov) returns ov,
\* whatever the cell, the cache and the lock are; get_true() returns the cell's
\* value when try_lock found the lock free and the local cache when it found it
\* held; get() with no override returns what get_true() returns.
C2_OverridePrecedence ==
    [][\A h \in Handles :
          /\ (pc[h] = "try_lock" /\ pc'[h] # pc[h])
                => ((pc'[h] = "idle") <=> locked[Cell(h)])
          /\ (TryReturns(h) /\ op[h] = "get_true") => ret'[h] = Some(Live(h))
          /\ (TryReturns(h) /\ op[h] = "get")
                => ret'[h] = IF override_value[h] # None
                             THEN override_value[h] ELSE Some(Live(h))]_vars

C2_Witness ==
    \E h \in Handles, g \in Handles :
        /\ g # h /\ Cell(g) = Cell(h) /\ pc[g] = "set_write"
        /\ op[h] = "get" /\ pc[h] = "idle"
        /\ override_value[h] # None /\ ret[h] = override_value[h]
        /\ override_value[h][1] # data[Cell(h)]
        /\ override_value[h][1] # cached_value[h]

\* C3: a call of try_update_cache, get_true or get is never at a position where
\* it waits: at each of its positions its next step can be taken at once, also
\* when the lock is held, and that step moves it on (from try_lock to the read
\* or the return, from the read to the return).
C3_NonBlocking ==
    \A h \in Handles :
        (op[h] \in {"try_update_cache", "get_true", "get"} /\ pc[h] # "idle")
            => /\ pc[h] \in {"try_lock", "try_read"}
               /\ pc[h] = "try_lock"
                    => ENABLED (try_lock(h) /\ pc'[h] \in {"try_read", "idle"})
               /\ pc[h] = "try_read"
                    => ENABLED (try_read(h) /\ pc'[h] = "idle")

C3_Witness ==
    \E h \in Handles, g \in Handles :
        /\ g # h /\ Cell(g) = Cell(h) /\ Holds(g)
        /\ pc[h] = "try_lock" /\ locked[Cell(h)]

\* C4: a try_lock step taken while the lock is held ends the call with
\* try_update_cache's result None and changes neither the handle's local cache,
\* nor its override, nor the cell, nor the lock.
C4_ContentionIsNone ==
    [][\A h \in Handles :
          (pc[h] = "try_lock" /\ locked[Cell(h)] /\ pc'[h] # pc[h])
              => /\ pc'[h] = "idle"
                 /\ try_result'[h] = None
                 /\ cached_value'[h] = cached_value[h]
                 /\ override_value'[h] = override_value[h]
                 /\ data' = data /\ locked' = locked]_vars

C4_Witness ==
    \E h \in Handles, g \in Handles :
        /\ g # h /\ Cell(g) = Cell(h) /\ Holds(g)
        /\ op[h] = "try_update_cache" /\ pc[h] = "idle"
        /\ try_result[h] = None

\* C5: every value get_true() returns, and every value get() returns on a handle
\* with no override, was given to new for the handle's cell or passed to a set
\* on that cell.
C5_OnlyWrittenValues ==
    [][\A h \in Handles :
          (TryReturns(h) /\ (op[h] = "get_true"
                             \/ (op[h] = "get" /\ override_value[h] = None)))
              => (ret'[h] # None /\ ret'[h][1] \in written[Cell(h)])]_vars

C5_Witness ==
    \E h \in Handles :
        /\ op[h] = "get_true" /\ pc[h] = "idle"
        /\ ret[h] # None /\ ret[h][1] # created[h]
        /\ ret[h][1] \in written[Cell(h)]
        /\ override_value[h] # None /\ override_value[h] # ret[h]

\* C6: whenever no set holds the lock with its store still to do, the cell holds
\* the value of the set that took the lock last (the value given to new if none
\* did); every read made under the lock finds that value and leaves it in the
\* reader's local cache.
C6_WritesOrderedByLock ==
    /\ [](\A c \in Cells :
            ((\A h \in Handles : ~(Cell(h) = c /\ pc[h] = "set_write"))
                => data[c] = latest[c]))
    /\ [](\A h \in Handles :
            pc[h] \in {"update_read", "try_read"} => data[Cell(h)] = latest[Cell(h)])
    /\ [][\A h \in Handles :
            (pc[h] \in {"update_read", "try_read"} /\ pc'[h] = "idle")
                => cached_value'[h] = latest[Cell(h)]]_vars

C6_Witness ==
    \E h \in Handles, g \in Handles :
        /\ g # h /\ Cell(g) = Cell(h)
        /\ op[h] = "set" /\ pc[h] = "idle"
        /\ op[g] = "set" /\ pc[g] = "idle"
        /\ cached_value[h] # cached_value[g]
        /\ data[Cell(g)] = cached_value[g] /\ latest[Cell(g)] = cached_value[g]

\* C7 as stated: in every state each handle's local cache equals its value at the
\* handle's creation or the value the cell held at the handle's most recent read
\* or write of the cell.
C7_Original ==
    \A h \in Handles :
        cached_value[h] = created[h] \/ synced[h] = Some(cached_value[h])

\* C7 amended: ... or, while a set call on that handle has not yet stored into
\* the cell, the value passed to that set.
C7_CacheProvenance ==
    \A h \in Handles :
        \/ cached_value[h] = created[h]
        \/ synced[h] = Some(cached_value[h])
        \/ (pc[h] \in {"set_lock", "set_write"} /\ value[h] = Some(cached_value[h]))

C7_Witness ==
    \E h \in Handles :
        /\ pc[h] = "set_lock" /\ locked[Cell(h)]
        /\ cached_value[h] # created[h]
        /\ synced[h] # None /\ synced[h] # Some(cached_value[h])
        /\ data[Cell(h)] # cached_value[h]

\* C8: right after new(v) the handle's cell holds v, its local cache is v and its
\* override is unset; a get() called on it before anything else returns v.
C8_NewThenGet ==
    \A h \in Handles :
        pristine[h] =>
            /\ op[h] = "new" =>
                  /\ data[Cell(h)] = created[h]
                  /\ cached_value[h] = created[h]
                  /\ override_value[h] = None
                  /\ \A g \in Handles \ {h} : Cell(g) # Cell(h)
            /\ (op[h] = "get" /\ pc[h] = "idle") => ret[h] = Some(created[h])

C8_Witness ==
    \E h \in Handles :
        pristine[h] /\ op[h] = "get" /\ pc[h] = "idle" /\ ret[h] = Some(created[h])

\* C9: a clone step gives the new handle the source's local cache, override and
\* cell and creates no cell; the two handles refer to the same cell ever after;
\* a step that changes the local cache or the override of one of them changes
\* neither of the other; and get_updated on one returns the value of the set
\* that last returned on the shared cell (C1's conditions).
C9_Clone ==
    /\ [][(Len(pc') = Len(pc) + 1 /\ parent'[Len(pc')] # 0)
            => LET n == Len(pc')
                   s == parent'[n]
               IN  /\ cached_value'[n] = cached_value[s]
                   /\ override_value'[n] = override_value[s]
                   /\ raw_value'[n] = raw_value[s]
                   /\ data' = data
                   /\ cached_value'[s] = cached_value[s]
                   /\ override_value'[s] = override_value[s]]_vars
    /\ [][\A h \in Handles :
            parent[h] # 0 =>
                LET s == parent[h]
                    Changed(x) == \/ cached_value'[x] # cached_value[x]
                                  \/ override_value'[x] # override_value[x]
                IN  ~(Changed(h) /\ Changed(s))]_vars
    /\ [](\A h \in Handles :
            parent[h] # 0 =>
                /\ Cell(h) = Cell(parent[h])
                /\ \A x \in {h, parent[h]} :
                      (op[x] = "get_updated" /\ pc[x] = "idle" /\ expect[x] # None)
                          => ret[x] = expect[x])

C9_Witness ==
    \E h \in Handles :
        /\ parent[h] # 0
        /\ op[parent[h]] = "get_updated" /\ pc[parent[h]] = "idle"
        /\ op[h] = "set" /\ pc[h] = "idle"
        /\ ret[parent[h]] = Some(cached_value[h])
        /\ cached_value[h] # created[h]
        /\ override_value[h] # override_value[parent[h]]

\* C10: a step that changes a handle's override, and every step of a get() on a
\* handle that has an override, leaves the cell's value and every other handle's
\* local cache, override and results unchanged; and a get() on a handle without
\* an override returns the cell's value or that handle's local cache, whatever
\* the other handles' overrides are.
GetStep(h) ==
    \/ pc[h] = "idle" /\ pc'[h] = "try_lock" /\ op'[h] = "get"
    \/ op[h] = "get" /\ pc[h] \in {"try_lock", "try_read"} /\ pc'[h] # pc[h]

C10_OverrideIsLocal ==
    [][\A h \in Handles :
          /\ (\/ override_value'[h] # override_value[h]
              \/ (override_value[h] # None /\ GetStep(h)))
                => /\ data' = data
                   /\ \A g \in Handles \ {h} :
                         /\ cached_value'[g] = cached_value[g]
                         /\ override_value'[g] = override_value[g]
                         /\ ret'[g] = ret[g]
                         /\ try_result'[g] = try_result[g]
          /\ (TryReturns(h) /\ op[h] = "get" /\ override_value[h] = None)
                => ret'[h] = Some(cached_value'[h])]_vars

C10_Witness ==
    \E h \in Handles, g \in Handles :
        /\ g # h /\ Cell(g) = Cell(h)
        /\ override_value[h] # None /\ override_value[g] = None
        /\ op[h] = "get" /\ pc[h] = "idle" /\ ret[h] = override_value[h]
        /\ op[g] = "get" /\ pc[g] = "idle" /\ ret[g] = Some(data[Cell(g)])
        /\ ret[g] # override_value[h]

\* C11: when update_cache() or get_updated() reads the cell on a handle whose
\* previous call was update_cache() or get_updated() too, and no set has taken
\* the lock of the cell since that call's read, the read leaves the local cache
\* as the first call left it, and get_updated() returns that same value.
C11_UpdateIdempotent ==
    [][\A h \in Handles :
          (pc[h] = "update_read" /\ pc'[h] = "idle" /\ stable[h])
              => /\ cached_value'[h] = cached_value[h]
                 /\ op[h] = "get_updated" => ret'[h] = Some(cached_value[h])]_vars

C11_Witness ==
    \E h \in Handles, g \in Handles :
        /\ g # h /\ Cell(g) = Cell(h) /\ op[g] = "set" /\ pc[g] = "idle"
        /\ op[h] = "get_updated" /\ pc[h] = "update_read" /\ stable[h]
        /\ cached_value[h] = cached_value[g] /\ cached_value[h] # created[h]

\* C12: under fair scheduling every set, update_cache or get_updated that has
\* begun returns; and a call that waits for the lock is never stuck: either the
\* lock is free for it, or a call holds the lock whose next step can be taken.
C12_BlockingCompletes ==
    /\ [](\A h \in Handles :
            pc[h] \in {"set_lock", "update_lock"}
                => \/ ENABLED Step(h)
                   \/ \E g \in Handles :
                         Cell(g) = Cell(h) /\ Holds(g) /\ ENABLED Step(g))
    /\ \A h \in 1..MaxHandles :
          (h \in Handles /\ op[h] \in {"set", "update_cache", "get_updated"}
                         /\ pc[h] # "idle")
              ~> (h \in Handles /\ pc[h] = "idle")

C12_Witness ==
    \E h \in Handles, g \in Handles :
        /\ g # h /\ Cell(g) = Cell(h)
        /\ pc[h] \in {"set_lock", "update_lock"}
        /\ locked[Cell(h)] /\ Holds(g) /\ op[g] \in {"set", "update_cache"}

\* The local cache a handle had when the call now running on it began, for a
\* running set: the cell value of its last read or write, else its value at creation.
Prior(h) == IF synced[h] # None THEN synced[h][1] ELSE created[h]

\* C13 as stated: while a set call waits for the lock, the calling handle's local
\* cache is still what it was before the call.
C13_Original ==
    \A h \in Handles : pc[h] = "set_lock" => cached_value[h] = Prior(h)

\* C13 amended: set(value) first updates the calling handle's local cache to
\* value and only then takes the lock and stores value into the cell: whenever a
\* set waits for the lock or holds it with the store still to do, the handle's
\* local cache already equals value; the cell takes the value only in the later
\* step that holds the lock.
C13_CacheBeforeStore ==
    /\ [](\A h \in Handles :
            pc[h] \in {"set_lock", "set_write"} => Some(cached_value[h]) = value[h])
    /\ [][\A h \in Handles :
            (pc[h] = "idle" /\ pc'[h] = "set_lock")
                => /\ Some(cached_value'[h]) = value'[h]
                   /\ data' = data /\ locked' = locked]_vars
    /\ [][\A h \in Handles :
            (pc[h] = "set_write" /\ pc'[h] = "idle")
                => /\ data'[Cell(h)] = value[h][1]
                   /\ cached_value'[h] = value[h][1]]_vars

C13_Witness ==
    \E h \in Handles :
        /\ pc[h] = "set_lock" /\ locked[Cell(h)]
        /\ value[h] = Some(cached_value[h])
        /\ cached_value[h] # Prior(h)
        /\ data[Cell(h)] = Prior(h)

\* A step made on handle g: of a call running on it, a call beginning on it, or
\* a write of its override field.
StepOn(g) == pc'[g] # pc[g] \/ override_value'[g] # override_value[g]

\* C14: a step made on one handle leaves the local cache and the override of
\* every other handle unchanged; in particular the steps of a set change nothing
\* but the calling handle's local cache and, in the step holding the lock, the
\* value of that handle's cell.
C14_SetFrame ==
    [][\A g \in Handles :
          /\ StepOn(g) =>
                \A h \in Handles \ {g} :
                    /\ cached_value'[h] = cached_value[h]
                    /\ override_value'[h] = override_value[h]
          /\ (pc'[g] # pc[g] /\ op'[g] = "set") =>
                /\ override_value' = override_value
                /\ \A c \in Cells \ {Cell(g)} : data'[c] = data[c]
                /\ data'[Cell(g)] # data[Cell(g)] => pc[g] = "set_write"]_vars

C14_Witness ==
    \E h \in Handles, g \in Handles :
        /\ g # h /\ Cell(g) = Cell(h)
        /\ op[g] = "set" /\ pc[g] = "idle" /\ data[Cell(g)] = cached_value[g]
        /\ pc[h] = "idle" /\ cached_value[h] # data[Cell(h)]
        /\ cached_value[h] = created[h] /\ override_value[h] # None

\* C15: when the try_lock of a get_true() finds the lock free, get_true()
\* returns the value the cell holds at the read and the local cache holds that
\* value afterwards; when it finds the lock held, get_true() returns the local
\* cache as it was and leaves it unchanged.
C15_GetTrue ==
    [][\A h \in Handles :
          op[h] = "get_true" =>
              /\ (pc[h] = "try_lock" /\ ~locked[Cell(h)] /\ pc'[h] # pc[h])
                    => (pc'[h] = "try_read" /\ cached_value'[h] = cached_value[h])
              /\ (pc[h] = "try_read" /\ pc'[h] # pc[h])
                    => /\ pc'[h] = "idle"
                       /\ ret'[h] = Some(data[Cell(h)])
                       /\ cached_value'[h] = data[Cell(h)]
                       /\ data' = data
              /\ (pc[h] = "try_lock" /\ locked[Cell(h)] /\ pc'[h] # pc[h])
                    => /\ pc'[h] = "idle"
                       /\ ret'[h] = Some(cached_value[h])
                       /\ cached_value'[h] = cached_value[h]]_vars

C15_Witness ==
    \E h \in Handles, g \in Handles :
        /\ g # h /\ Cell(g) = Cell(h)
        /\ op[h] = "get_true" /\ pc[h] = "idle"
        /\ ret[h] = Some(cached_value[h]) /\ cached_value[h] # data[Cell(h)]
        /\ op[g] = "get_true" /\ pc[g] = "idle"
        /\ ret[g] = Some(data[Cell(g)]) /\ ret[g] # Some(created[g])

\* C16: at most one call holds the lock of a cell, and the lock is taken exactly
\* when a call holds it; the value of a cell changes only in the step of a set
\* that holds the cell's lock; a handle's local cache takes the cell's value
\* only in a step of a call that holds the lock.
Holders(c) == {h \in Handles : Cell(h) = c /\ Holds(h)}

C16_MutualExclusion ==
    /\ [](\A c \in Cells :
            /\ Cardinality(Holders(c)) <= 1
            /\ locked[c] <=> Holders(c) # {})
    /\ [][\A c \in Cells :
            data'[c] # data[c] =>
                \E h \in Holders(c) :
                    /\ pc[h] = "set_write" /\ pc'[h] = "idle"
                    /\ data'[c] = value[h][1]]_vars
    /\ [][\A h \in Handles :
            synced'[h] # synced[h] => (Holds(h) /\ locked[Cell(h)])]_vars

C16_Witness ==
    \E h \in Handles, g \in Handles :
        /\ g # h /\ Cell(g) = Cell(h)
        /\ pc[g] = "set_write" /\ data[Cell(g)] # value[g][1]
        /\ pc[h] = "update_lock"

\* C17: a handle's override is None after new and the source's after clone; a
\* step that changes the override of an existing handle is a write of that
\* handle's field made while no call runs on it, and is a step of no call: it
\* changes no position, no local cache, no cell and no lock.
C17_OverrideOnlyByField ==
    /\ [][Len(pc') = Len(pc) + 1 =>
            LET n == Len(pc')
            IN  override_value'[n] = IF parent'[n] = 0 THEN None
                                     ELSE override_value[parent'[n]]]_vars
    /\ [][\A h \in Handles :
            override_value'[h] # override_value[h] =>
                /\ pc[h] = "idle"
                /\ pc' = pc /\ op' = op
                /\ cached_value' = cached_value
                /\ data' = data /\ locked' = locked
                /\ \A g \in Handles \ {h} : override_value'[g] = override_value[g]]_vars

C17_Witness ==
    \E h \in Handles :
        /\ parent[h] # 0 /\ override_value[h] # None
        /\ override_value[parent[h]] = None
        /\ op[h] = "set" /\ pc[h] = "idle"
        /\ op[parent[h]] = "get" /\ pc[parent[h]] = "idle"

\* C18: the read step of a get() on a handle whose override is Some(ov), reached
\* because try_lock found the lock free, stores the cell's value into the local
\* cache although get() returns ov.
C18_GetRefreshesUnderOverride ==
    [][\A h \in Handles :
          (op[h] = "get" /\ override_value[h] # None) =>
              /\ (pc[h] = "try_lock" /\ ~locked[Cell(h)] /\ pc'[h] # pc[h])
                    => pc'[h] = "try_read"
              /\ (pc[h] = "try_read" /\ pc'[h] # pc[h])
                    => /\ pc'[h] = "idle"
                       /\ cached_value'[h] = data'[Cell(h)]
                       /\ ret'[h] = override_value[h]]_vars

C18_Witness ==
    \E h \in Handles, g \in Handles :
        /\ g # h /\ Cell(g) = Cell(h) /\ op[g] = "set" /\ pc[g] = "idle"
        /\ op[h] = "get" /\ pc[h] = "idle"
        /\ override_value[h] # None /\ ret[h] = override_value[h]
        /\ cached_value[h] = data[Cell(h)] /\ cached_value[h] # created[h]
        /\ override_value[h][1] # cached_value[h]

\* C19: a call that holds the lock can take its next step at once, and that
\* step releases the lock and returns; so when no call runs on any handle of a
\* cell the cell's lock is free, and the try_lock of a try_update_cache() that
\* finds it so gets the guard.
C19_LockWithinOneCall ==
    /\ [](\A h \in Handles :
            Holds(h) => ENABLED (Step(h) /\ pc'[h] = "idle" /\ ~locked'[Cell(h)]))
    /\ [](\A c \in Cells :
            (\A h \in Handles : Cell(h) = c => pc[h] = "idle") => ~locked[c])
    /\ [][\A h \in Handles :
            (pc[h] = "try_lock" /\ pc'[h] # pc[h]
               /\ \A g \in Handles \ {h} : Cell(g) = Cell(h) => pc[g] = "idle")
                => pc'[h] = "try_read"]_vars

C19_Witness ==
    \E h \in Handles, g \in Handles :
        /\ g # h /\ Cell(g) = Cell(h)
        /\ op[g] = "set" /\ pc[g] = "idle"
        /\ op[h] = "try_update_cache" /\ pc[h] = "idle"
        /\ try_result[h] = Some(cached_value[g]) /\ try_result[h] # Some(created[h])
        /\ ~locked[Cell(h)]

====
